---- MODULE Spec2Model ----
(***************************************************************************)
(* A model of bddrest/specification.py: Response, Call, OverriddenCall     *)
(* and Story.                                                              *)
(*                                                                         *)
(* Strings are sequences of one-character strings, so that the regular     *)
(* expressions, str.split, str.join and int() of the source are computed   *)
(* character by character.  An optional value is a sequence of length 0    *)
(* (Python's None) or 1 (the value).  A dict is a function from keys to    *)
(* values; the dicts and lists that the source updates in place            *)
(* (dict.update, list.append) live in a heap and are held by address.      *)
(***************************************************************************)
EXTENDS Integers, Sequences, FiniteSets, TLC

VARIABLES
    heap,    \* the mutable dicts and lists, by address (1..Len(heap))
    base,    \* Story.base_call: None or Some(Call)
    calls,   \* Story.calls: a sequence of OverriddenCalls
    arg,     \* the arguments of the last operation
    ret,     \* what the last operation returned
    err,     \* the exception the last operation raised, "none" if none
    op       \* the last operation

vars == <<heap, base, calls, arg, ret, err, op>>

None == <<>>
Some(v) == <<v>>
IsNone(o) == Len(o) = 0
Val(o) == o[1]

EmptyDict == <<>>

\* F applied to a value computed once
Bind(v, F(_)) == F(v)

\* dict.update(other): other's items on top of d's
DictUpdate(d, other) ==
    [k \in (DOMAIN d) \cup (DOMAIN other) |->
        IF k \in DOMAIN other THEN other[k] ELSE d[k]]

-----------------------------------------------------------------------------
(* Characters *)

Digits == {"0", "1", "2", "3", "4", "5", "6", "7", "8", "9"}

Letters == {"a", "b", "c", "d", "e", "f", "g", "h", "i", "j", "k", "l", "m",
            "n", "o", "p", "q", "r", "s", "t", "u", "v", "w", "x", "y", "z",
            "A", "B", "C", "D", "E", "F", "G", "H", "I", "J", "K", "L", "M",
            "N", "O", "P", "Q", "R", "S", "T", "U", "V", "W", "X", "Y", "Z"}

\* \w
IsWord(c) == c \in Letters \cup Digits \cup {"_"}

\* [\w\d_-]
IsValueChar(c) == IsWord(c) \/ c = "-"

\* \s
IsSpace(c) == c = " "

\* the length of the longest run of word characters that starts at s[i]
RECURSIVE WordRun(_, _)
WordRun(s, i) ==
    IF i <= Len(s) /\ IsWord(s[i]) THEN 1 + WordRun(s, i + 1) ELSE 0

\* the length of the longest run of value characters that starts at s[i]
RECURSIVE ValueRun(_, _)
ValueRun(s, i) ==
    IF i <= Len(s) /\ IsValueChar(s[i]) THEN 1 + ValueRun(s, i + 1) ELSE 0

\* s[i..] starts with the literal lit
StartsWithAt(s, i, lit) ==
    /\ i + Len(lit) - 1 <= Len(s)
    /\ \A j \in 1..Len(lit) : s[i + j - 1] = lit[j]

\* s[i..j], empty when j < i
Slice(s, i, j) == IF j < i THEN <<>> ELSE SubSeq(s, i, j)

-----------------------------------------------------------------------------
(* URL parameters *)

NoMatch == [ok |-> FALSE]

\* VALUE after the colon: \s?[\w\d_-]+ starting at s[j]; the index after the
\* match, 0 when there is none.  \s? is greedy and a space is no value
\* character, so a space that is there is always taken.
ValueEndAt(s, j) ==
    IF j <= Len(s) /\ IsValueChar(s[j]) THEN j + ValueRun(s, j) ELSE 0

ValueEnd(s, j) ==
    ValueEndAt(s, IF j <= Len(s) /\ IsSpace(s[j]) THEN j + 1 ELSE j)

\* URL_PARAMETER_PATTERN matched at s[i]: /(?P<key>\w+):\s?(?P<value>[\w\d_-]+).
\* \w+ is greedy and ':' is no word character, so the key is the whole run.
URL_PARAMETER_PATTERN(s, i) ==
    IF i > Len(s) \/ s[i] # "/" THEN NoMatch
    ELSE Bind(WordRun(s, i + 1), LAMBDA n :
         IF n = 0 \/ i + n + 1 > Len(s) \/ s[i + n + 1] # ":" THEN NoMatch
         ELSE Bind(ValueEnd(s, i + n + 2), LAMBDA e :
              IF e = 0 THEN NoMatch
              ELSE [ok |-> TRUE,
                    key |-> Slice(s, i + 1, i + n),
                    value |-> Slice(s, IF IsSpace(s[i + n + 2])
                                       THEN i + n + 3 ELSE i + n + 2, e - 1),
                    end |-> e]))

\* URL_PARAMETER_PATTERN.findall(s) from s[i]: the <<key, value>> pairs of the
\* non-overlapping matches, left to right
RECURSIVE FindAllFrom(_, _)
FindAllFrom(s, i) ==
    IF i > Len(s) THEN <<>>
    ELSE Bind(URL_PARAMETER_PATTERN(s, i), LAMBDA m :
         IF m.ok THEN <<(<<m.key, m.value>>)>> \o FindAllFrom(s, m.end)
         ELSE FindAllFrom(s, i + 1))

FindAll(s) == FindAllFrom(s, 1)

\* URL_PARAMETER_PATTERN.search(s)
Search(s) == Len(FindAll(s)) > 0

\* re.sub(f'{k}:\s?{URL_PARAMETER_VALUE_PATTERN}', f':{k}', s) from s[i]: every
\* occurrence of the key, wherever it stands, followed by a colon and a value
RECURSIVE SubFrom(_, _, _)
SubFrom(k, s, i) ==
    IF i > Len(s) THEN <<>>
    ELSE Bind(IF StartsWithAt(s, i, k \o <<":">>)
              THEN ValueEnd(s, i + Len(k) + 1) ELSE 0, LAMBDA e :
         IF e # 0 THEN <<":">> \o k \o SubFrom(k, s, e)
         ELSE <<s[i]>> \o SubFrom(k, s, i + 1))

Sub(k, s) == SubFrom(k, s, 1)

\* the loop of extract_url_parameters over the matches of the original url
RECURSIVE ExtractLoop(_, _, _)
ExtractLoop(found, url, url_parameters) ==
    IF found = <<>> THEN [url |-> url, url_parameters |-> url_parameters]
    ELSE ExtractLoop(Tail(found), Sub(found[1][1], url),
                     DictUpdate(url_parameters, found[1][1] :> found[1][2]))

extract_url_parameters(url) ==
    IF Search(url) THEN ExtractLoop(FindAll(url), url, EmptyDict)
    ELSE [url |-> url, url_parameters |-> EmptyDict]

-----------------------------------------------------------------------------
(* Strings *)

UpperCase == <<"A", "B", "C", "D", "E", "F", "G", "H", "I", "J", "K", "L", "M",
               "N", "O", "P", "Q", "R", "S", "T", "U", "V", "W", "X", "Y", "Z">>

LowerCase == <<"a", "b", "c", "d", "e", "f", "g", "h", "i", "j", "k", "l", "m",
               "n", "o", "p", "q", "r", "s", "t", "u", "v", "w", "x", "y", "z">>

LowerChar(c) ==
    IF \E i \in 1..Len(UpperCase) : UpperCase[i] = c
    THEN LowerCase[CHOOSE i \in 1..Len(UpperCase) : UpperCase[i] = c]
    ELSE c

\* str.lower()
Lower(s) == [i \in 1..Len(s) |-> LowerChar(s[i])]

\* the index of the first c in s, 0 when there is none
RECURSIVE IndexFrom(_, _, _)
IndexFrom(s, c, i) ==
    IF i > Len(s) THEN 0
    ELSE IF s[i] = c THEN i ELSE IndexFrom(s, c, i + 1)

Index(s, c) == IndexFrom(s, c, 1)

\* str.strip()
RECURSIVE LStrip(_)
LStrip(s) == IF s # <<>> /\ IsSpace(s[1]) THEN LStrip(Tail(s)) ELSE s

RECURSIVE RStrip(_)
RStrip(s) ==
    IF s # <<>> /\ IsSpace(s[Len(s)]) THEN RStrip(SubSeq(s, 1, Len(s) - 1))
    ELSE s

Strip(s) == RStrip(LStrip(s))

DigitChars == <<"0", "1", "2", "3", "4", "5", "6", "7", "8", "9">>

DigitValue(c) == (CHOOSE i \in 1..10 : DigitChars[i] = c) - 1

RECURSIVE DecimalValue(_)
DecimalValue(s) ==
    IF s = <<>> THEN 0
    ELSE 10 * DecimalValue(SubSeq(s, 1, Len(s) - 1)) + DigitValue(s[Len(s)])

\* int(s): ValueError unless s is a non-empty run of decimal digits
IntOf(s) ==
    IF s # <<>> /\ \A i \in 1..Len(s) : s[i] \in Digits
    THEN [ok |-> TRUE, value |-> DecimalValue(s)]
    ELSE [ok |-> FALSE]

\* a str and a bytes object of the same ASCII text are different values
Str(data) == [type |-> "str", data |-> data]
Bytes(data) == [type |-> "bytes", data |-> data]

\* str.encode() and bytes.decode() on ASCII text
Encode(s) == Bytes(s.data)
Decode(b) == Str(b.data)

-----------------------------------------------------------------------------
(* Headers *)

\* a header as the caller may give it: one "Name: Value" string or a pair
HStr(s) == [tag |-> "str", s |-> s]
HPair(n, v) == [tag |-> "pair", name |-> n, value |-> v]

\* one header in canonical form: a pair of stripped strings; a string is split
\* at its first colon
NormalizeHeader(h) ==
    IF h.tag = "str"
    THEN LET c == Index(h.s, ":")
         IN HPair(Strip(Slice(h.s, 1, c - 1)), Strip(Slice(h.s, c + 1, Len(h.s))))
    ELSE HPair(Strip(h.name), Strip(h.value))

\* helpers.normalize_headers: absent stays absent, a sequence of headers becomes
\* the sequence of their canonical forms, in order and with the names' case kept
normalize_headers(headers) ==
    IF IsNone(headers) THEN None
    ELSE Some([i \in 1..Len(Val(headers)) |-> NormalizeHeader(Val(headers)[i])])

\* helpers.normalize_query_string: absent or empty is absent, a mapping is kept
normalize_query_string(query) ==
    IF IsNone(query) \/ DOMAIN Val(query) = {} THEN None ELSE query

\* ': '.join(h)
JoinHeader(h) == HStr(h.name \o <<":", " ">> \o h.value)

-----------------------------------------------------------------------------
(* Response *)

S_ContentType == <<"C", "o", "n", "t", "e", "n", "t", "-", "T", "y", "p", "e">>
S_content_type == Lower(S_ContentType)
S_charset == <<"c", "h", "a", "r", "s", "e", "t", "=">>

\* CONTENT_TYPE_PATTERN.match(v): (\w+/\w+)(?:;\s?charset=(.+))? at the start of
\* v; groups() when it matches
CONTENT_TYPE_PATTERN(v) ==
    LET n1 == WordRun(v, 1)
        n2 == WordRun(v, n1 + 2)
        e == n1 + 1 + n2          \* the last index of type/subtype
        c == IF e + 2 <= Len(v) /\ IsSpace(v[e + 2]) THEN e + 3 ELSE e + 2
        charset == /\ e + 1 <= Len(v)
                   /\ v[e + 1] = ";"
                   /\ StartsWithAt(v, c, S_charset)
                   /\ c + Len(S_charset) <= Len(v)
    IN IF n1 = 0 \/ n1 + 1 > Len(v) \/ v[n1 + 1] # "/" \/ n2 = 0 THEN NoMatch
       ELSE [ok |-> TRUE,
             content_type |-> Some(Slice(v, 1, e)),
             encoding |-> IF charset
                          THEN Some(Slice(v, c + Len(S_charset), Len(v)))
                          ELSE None]

\* StatusCode without the split at the first space
StatusCodeUnsplit(status) == [code |-> IntOf(status), text |-> None]

\* status_code and status_text of Response.__init__
StatusCode(status) ==
    Bind(Index(status, " "), LAMBDA sp :
        IF sp # 0
        THEN [code |-> IntOf(Slice(status, 1, sp - 1)),
              text |-> Some(Slice(status, sp + 1, Len(status)))]
        ELSE [code |-> IntOf(status), text |-> None])

\* the name the loop of Response.__init__ looks for
IsContentTypeHeader(k) == k = S_ContentType

\* the first Content-Type header: its index in headers, 0 when there is none
RECURSIVE FirstContentType(_, _)
FirstContentType(headers, i) ==
    IF i > Len(headers) THEN 0
    ELSE IF IsContentTypeHeader(headers[i].name) THEN i
    ELSE FirstContentType(headers, i + 1)

\* content_type and encoding of Response.__init__
ContentTypeOf(headers) ==
    Bind(IF IsNone(headers) THEN <<>> ELSE Val(headers), LAMBDA hs :
    Bind(FirstContentType(hs, 1), LAMBDA i :
    Bind(IF i = 0 THEN NoMatch ELSE CONTENT_TYPE_PATTERN(hs[i].value), LAMBDA m :
        IF m.ok THEN [content_type |-> m.content_type, encoding |-> m.encoding]
        ELSE [content_type |-> None, encoding |-> None])))

\* Response(status, headers, body): body is None, Some(str) or Some(bytes)
Response(status, headers, body) ==
    Bind(normalize_headers(headers), LAMBDA hs :
    Bind(StatusCode(status), LAMBDA sc :
    Bind(ContentTypeOf(hs), LAMBDA ct :
        IF ~sc.code.ok THEN [err |-> "ValueError"]
        ELSE [err |-> "none",
              response |->
                 [status |-> status,
                  headers |-> hs,
                  body |-> IF ~IsNone(body) /\ Val(body).type # "bytes"
                           THEN Some(Encode(Val(body))) ELSE body,
                  status_code |-> sc.code.value,
                  status_text |-> sc.text,
                  content_type |-> ct.content_type,
                  encoding |-> ct.encoding]])))

\* Response.to_dict()
Response_to_dict(r) ==
    ("status" :> r.status)
    @@ (IF ~IsNone(r.headers) /\ Val(r.headers) # <<>>
        THEN "headers" :> [i \in 1..Len(Val(r.headers)) |->
                              JoinHeader(Val(r.headers)[i])]
        ELSE <<>>)
    @@ (IF ~IsNone(r.body) /\ Val(r.body).data # <<>>
        THEN "body" :> Decode(Val(r.body))
        ELSE <<>>)

\* Response(**v) for a mapping v: status and headers are required arguments
Response_from_dict(v) ==
    IF ~({"status", "headers"} \subseteq DOMAIN v) THEN [err |-> "TypeError"]
    ELSE Response(v["status"], Some(v["headers"]),
                  IF "body" \in DOMAIN v THEN Some(v["body"]) ELSE None)

-----------------------------------------------------------------------------
(* Call *)

\* a dict argument: one held in the heap, or a literal only the callee sees
Ref(a) == [ref |-> a]
Lit(d) == [lit |-> d]
Deref(h, x) == IF "ref" \in DOMAIN x THEN h[x.ref] ELSE x.lit

\* a keyword argument, None when it is not given
Opt(kw, k) == IF k \in DOMAIN kw THEN Some(kw[k]) ELSE None

\* a mapping without some of its keys
Without(d, ks) == [k \in (DOMAIN d) \ ks |-> d[k]]

IsResponse(v) == "status_code" \in DOMAIN v

\* the response setter: Response(**v) if v and not isinstance(v, Response) else v
SetResponseValue(v) ==
    IF ~IsNone(v) /\ DOMAIN Val(v) # {} /\ ~IsResponse(Val(v))
    THEN Bind(Response_from_dict(Val(v)), LAMBDA r :
         IF r.err = "none" THEN [err |-> "none", response |-> Some(r.response)]
         ELSE [err |-> r.err])
    ELSE [err |-> "none", response |-> v]

\* self.url, self.url_parameters = self.extract_url_parameters(url) and the
\* update with the url_parameters argument: the new heap and the dict's address
CallUrlParameters(h, url, url_parameters) ==
    Bind(extract_url_parameters(url), LAMBDA ex :
        [h |-> IF ~IsNone(url_parameters) /\ DOMAIN Deref(h, Val(url_parameters)) # {}
               THEN Append(h, DictUpdate(ex.url_parameters,
                                         Deref(h, Val(url_parameters))))
               ELSE Append(h, ex.url_parameters),
         url |-> ex.url,
         url_parameters |-> Len(h) + 1])

\* Call.__init__(**kw) in heap h: the new heap and the Call, or the exception
Call(h, kw) ==
    Bind(SetResponseValue(Opt(kw, "response")), LAMBDA resp :
    Bind(CallUrlParameters(h, IF "url" \in DOMAIN kw THEN kw["url"] ELSE <<"/">>,
                           Opt(kw, "url_parameters")), LAMBDA up :
    Bind(normalize_headers(Opt(kw, "headers")), LAMBDA hs :
        IF resp.err # "none" THEN [err |-> resp.err]
        ELSE [err |-> "none",
              h |-> IF IsNone(hs) THEN up.h ELSE Append(up.h, Val(hs)),
              call |->
                 [title |-> kw["title"],
                  response |-> resp.response,
                  description |-> Opt(kw, "description"),
                  extra_environ |-> Opt(kw, "extra_environ"),
                  url |-> up.url,
                  url_parameters |-> up.url_parameters,
                  verb |-> IF "verb" \in DOMAIN kw THEN kw["verb"] ELSE "GET",
                  form |-> Opt(kw, "form"),
                  content_type |-> Opt(kw, "content_type"),
                  headers |-> IF IsNone(hs) THEN None ELSE Some(Len(up.h) + 1),
                  as_ |-> Opt(kw, "as_"),
                  query |-> normalize_query_string(Opt(kw, "query")),
                  override |-> FALSE,
                  diff |-> EmptyDict]])))

\* a key of to_dict()'s result, when the field is there
Entry(present, k, v) == IF present THEN k :> v ELSE <<>>

\* Call.to_dict(): url_parameters is the Call's own dict, not a copy
Call_to_dict(h, c) ==
    ("title" :> c.title) @@ ("url" :> c.url) @@ ("verb" :> c.verb)
    @@ Entry(TRUE, "url_parameters", Ref(c.url_parameters))
    @@ Entry(~IsNone(c.form), "form", c.form[1])
    @@ Entry(~IsNone(c.headers), "headers",
             LET hs == h[c.headers[1]]
             IN [i \in 1..Len(hs) |-> JoinHeader(hs[i])])
    @@ Entry(~IsNone(c.as_), "as_", c.as_[1])
    @@ Entry(~IsNone(c.query), "query", c.query[1])
    @@ Entry(~IsNone(c.description), "description", c.description[1])
    @@ Entry(~IsNone(c.response), "response", Response_to_dict(c.response[1]))

-----------------------------------------------------------------------------
(* OverriddenCall *)

NamedArguments == {"title", "description", "response", "url_parameters"}

\* lines 152-153 of OverriddenCall.__init__: the url of the diff and the
\* parameters extracted from it, a new dict
OverriddenUrl(h, diff) ==
    IF "url" \in DOMAIN diff
    THEN Bind(extract_url_parameters(diff["url"]), LAMBDA ex :
         [h |-> Append(h, ex.url_parameters),
          diff |-> ("url" :> ex.url) @@ ("url_parameters" :> Ref(Len(h) + 1)) @@ diff])
    ELSE [h |-> h, diff |-> diff]

\* lines 152-156 of OverriddenCall.__init__: the diff that is kept, in the new
\* heap, or KeyError
OverriddenDiff(h, kw) ==
    Bind(OverriddenUrl(h, Without(kw, NamedArguments)), LAMBDA d :
    Bind(Opt(kw, "url_parameters"), LAMBDA url_parameters :
        IF IsNone(url_parameters) \/ DOMAIN Deref(d.h, Val(url_parameters)) = {}
        THEN [err |-> "none", h |-> d.h, diff |-> d.diff]
        ELSE IF "url_parameters" \notin DOMAIN d.diff THEN [err |-> "KeyError"]
        ELSE [err |-> "none",
              h |-> [d.h EXCEPT ![d.diff["url_parameters"].ref] =
                         DictUpdate(@, Deref(d.h, Val(url_parameters)))],
              diff |-> d.diff]))

\* lines 158-159 of OverriddenCall.__init__: the base's fields with the diff
OverriddenData(h, base_call, diff) ==
    diff @@ Without(Call_to_dict(h, base_call), {"response", "title", "description"})

\* OverriddenCall.__init__(base_call, **kw) in heap h
OverriddenCall(h, base_call, kw) ==
    Bind(OverriddenDiff(h, kw), LAMBDA d :
        IF d.err # "none" THEN [err |-> d.err]
        ELSE Bind(Call(d.h, Without(kw, (DOMAIN kw) \ {"title", "description", "response"})
                            @@ OverriddenData(d.h, base_call, d.diff)), LAMBDA r :
             IF r.err # "none" THEN [err |-> r.err]
             ELSE [err |-> "none",
                   h |-> r.h,
                   call |-> [r.call EXCEPT !.override = TRUE, !.diff = d.diff]]))

\* OverriddenCall.to_dict()
OverriddenCall_to_dict(c) ==
    Entry(~IsNone(c.response), "response", Response_to_dict(c.response[1]))
    @@ Entry(~IsNone(c.description), "description", c.description[1])
    @@ c.diff
    @@ ("title" :> c.title)

-----------------------------------------------------------------------------
(* Story *)

\* Story.to_dict()
Story_to_dict(h, base_call, cs) ==
    [base_call |-> Call_to_dict(h, base_call),
     calls |-> [i \in 1..Len(cs) |-> OverriddenCall_to_dict(cs[i])]]

\* [OverriddenCall(base_call, **d) for d in ds], from left to right
RECURSIVE OverriddenCalls(_, _, _, _)
OverriddenCalls(h, base_call, ds, done) ==
    IF ds = <<>> THEN [err |-> "none", h |-> h, calls |-> done]
    ELSE Bind(OverriddenCall(h, base_call, ds[1]), LAMBDA r :
         IF r.err # "none" THEN [err |-> r.err]
         ELSE OverriddenCalls(r.h, base_call, Tail(ds), Append(done, r.call)))

\* Story.from_dict(data) in heap h
Story_from_dict(h, data) ==
    Bind(Call(h, data.base_call), LAMBDA b :
        IF b.err # "none" THEN [err |-> b.err]
        ELSE Bind(IF data.calls # <<>>
                  THEN OverriddenCalls(b.h, b.call, data.calls, <<>>)
                  ELSE [err |-> "none", h |-> b.h, calls |-> <<>>], LAMBDA cs :
             IF cs.err # "none" THEN [err |-> cs.err]
             ELSE [err |-> "none", h |-> cs.h, base_call |-> b.call,
                   calls |-> cs.calls]))

\* a to_dict() result with the dict it refers to in place of the reference
DeepDict(h, d) ==
    [k \in DOMAIN d |-> IF k = "url_parameters" THEN Deref(h, d[k]) ELSE d[k]]

DeepStoryDict(h, d) ==
    [base_call |-> DeepDict(h, d.base_call),
     calls |-> [i \in 1..Len(d.calls) |-> DeepDict(h, d.calls[i])]]

\* a Call with its dict and its list in place of their addresses
DeepCall(h, c) ==
    [c EXCEPT !.url_parameters = h[c.url_parameters],
              !.headers = IF IsNone(c.headers) THEN None ELSE Some(h[c.headers[1]]),
              !.diff = DeepDict(h, c.diff)]

-----------------------------------------------------------------------------
(* Call.invoke *)

\* InvokeHeaders with the Call's own list changed in place: no copy is made
\* before the Content-Type header is replaced
InvokeHeadersInPlace(h, c) ==
    Bind(IF IsNone(c.headers) THEN <<>> ELSE h[c.headers[1]], LAMBDA headers :
        IF headers = <<>> THEN [h |-> Append(h, <<>>), headers |-> Len(h) + 1]
        ELSE IF ~IsNone(c.content_type) /\ Val(c.content_type) # <<>>
        THEN [h |-> [h EXCEPT ![c.headers[1]] = Append(
                        SelectSeq(headers, LAMBDA x : Lower(x.name) # S_content_type),
                        HPair(S_ContentType, Val(c.content_type)))],
              headers |-> c.headers[1]]
        ELSE [h |-> h, headers |-> c.headers[1]])

\* lines 129-132 of invoke: the headers of the request, a list in the heap
InvokeHeaders(h, c) ==
    Bind(IF IsNone(c.headers) THEN <<>> ELSE h[c.headers[1]], LAMBDA headers :
        IF ~IsNone(c.content_type) /\ Val(c.content_type) # <<>>
        THEN [h |-> Append(h, Append(
                        SelectSeq(headers, LAMBDA x : Lower(x.name) # S_content_type),
                        HPair(S_ContentType, Val(c.content_type)))),
              headers |-> Len(h) + 1]
        ELSE IF headers # <<>> THEN [h |-> h, headers |-> c.headers[1]]
        ELSE [h |-> Append(h, <<>>), headers |-> Len(h) + 1])

\* what invoke hands to TestApp._gen_request: the url is the path and the
\* query that urlencode gets
InvokeRequest(h, c) ==
    Bind(InvokeHeaders(h, c), LAMBDA hs :
        [h |-> hs.h,
         request |->
            [verb |-> c.verb,
             url |-> [path |-> c.url,
                      query |-> IF ~IsNone(c.query) /\ DOMAIN Val(c.query) # {}
                                THEN c.query ELSE None],
             expect_errors |-> TRUE,
             extra_environ |-> c.extra_environ,
             headers |-> hs.h[hs.headers],
             params |-> IF ~IsNone(c.form) /\ DOMAIN Val(c.form) # {}
                        THEN c.form ELSE None]])

\* the Response that invoke builds from what the transport returned
InvokeResponse(status, headers, body) ==
    Response(status, Some([i \in 1..Len(headers) |->
                              HPair(headers[i][1], headers[i][2])]),
             Some(Bytes(body)))

-----------------------------------------------------------------------------
(* The URLs of the model: up to MaxSegs segments *)

MaxSegs == 2

Segments ==
    { <<"/", "x">>,
      <<"/", "a", ":", "1">>,
      <<"/", "a", ":", " ", "2">>,
      <<"/", "b", "a", ":", " ", "3">>,
      <<"/", "b", ":", "1", "-", "2">>,
      <<"/", ":", "a">>,
      <<"/", "a", ":", " ", " ", "1">> }

RECURSIVE UrlsOf(_)
UrlsOf(n) ==
    IF n = 0 THEN {<<>>}
    ELSE LET shorter == UrlsOf(n - 1)
         IN shorter \cup {u \o g : u \in shorter, g \in Segments}

Urls == UrlsOf(MaxSegs) \ {<<>>}

-----------------------------------------------------------------------------
(* The responses of the model: up to MaxHeaders headers *)

MaxHeaders == 2

S_a_b == <<"a", "/", "b">>
S_utf == <<"u", "8">>

HeaderNames == { S_ContentType, S_content_type, <<"X">> }

HeaderValues ==
    { S_a_b,
      S_a_b \o <<";", " ">> \o S_charset \o S_utf,
      S_a_b \o <<";">> \o S_charset \o S_utf,
      S_a_b \o <<";", " ", "q", "=", "1">>,
      <<"z", "z">> }

HeaderPool == {HPair(n, v) : n \in HeaderNames, v \in HeaderValues}

RECURSIVE SeqsOf(_, _)
SeqsOf(S, n) ==
    IF n = 0 THEN {<<>>}
    ELSE LET shorter == SeqsOf(S, n - 1)
         IN shorter \cup {Append(q, x) : q \in shorter, x \in S}

S_200 == <<"2", "0", "0", " ", "O", "K">>
S_404 == <<"4", "0", "4", " ", "N", "o", "t", " ", "F", "o", "u", "n", "d">>
S_500 == <<"5", "0", "0", " ", "I", "n", "t", "e", "r", "n", "a", "l", " ",
           "S", "e", "r", "v", "e", "r", " ", "E", "r", "r", "o", "r">>

Statuses == { S_200, S_404, S_500 }

Bodies == { None, Some(Str(<<"h", "i">>)), Some(Bytes(<<>>)) }

ResponseArgs ==
    [status : Statuses, headers : SeqsOf(HeaderPool, MaxHeaders), body : Bodies]

InitResponse ==
    /\ heap = <<>>
    /\ base = None
    /\ calls = <<>>
    /\ arg \in ResponseArgs
    /\ ret = None
    /\ err = "none"
    /\ op = "init"

NewResponse ==
    /\ op = "init"
    /\ LET r == Response(arg.status, Some(arg.headers), arg.body)
       IN /\ err' = r.err
          /\ ret' = IF r.err = "none" THEN Some(r.response) ELSE None
    /\ op' = "Response"
    /\ UNCHANGED <<heap, base, calls, arg>>

NextResponse == NewResponse

SpecResponse == InitResponse /\ [][NextResponse]_vars

InitUrl ==
    /\ heap = <<>>
    /\ base = None
    /\ calls = <<>>
    /\ arg \in Urls
    /\ ret = None
    /\ err = "none"
    /\ op = "init"

Extract ==
    /\ op = "init"
    /\ ret' = Some(extract_url_parameters(arg))
    /\ op' = "extract_url_parameters"
    /\ UNCHANGED <<heap, base, calls, arg, err>>

NextUrl == Extract

SpecUrl == InitUrl /\ [][NextUrl]_vars

-----------------------------------------------------------------------------
(* The story: a base Call, its OverriddenCalls, invocations *)

MaxCalls == 1

U_a_b == <<"/", "a", ":", " ", "2", "/", "b", ":", "1", "-", "2">>
U_a_c == <<"/", "a", ":", " ", "7", "/", "c", ":", "5">>
U_x == <<"/", "x">>
S_c_d == <<"c", "/", "d">>
S_hi == <<"h", "i">>

K_a == <<"a">>

H_ct_zz == HStr(S_content_type \o <<":", " ", "z", "z">>)
H_CT_ab == HStr(S_ContentType \o <<":", " ">> \o S_a_b)
H_X_1 == HPair(<<"X">>, <<"1">>)
H_X_2 == HStr(<<"X", ":", " ", "2">>)

\* the url argument of Call: not given, or a url with two parameters
UrlArg(u) ==
    CASE u = 1 -> <<>>
      [] u = 2 -> "url" :> U_a_b

\* the other arguments of Call: none; all of them; empty containers; a content
\* type and a verb; a response mapping without headers
Profile(p) ==
    CASE p = 1 -> <<>>
      [] p = 2 -> [verb |-> "POST", url_parameters |-> Lit(K_a :> <<"9">>),
                   form |-> [f |-> "v"], content_type |-> S_a_b,
                   headers |-> <<H_ct_zz, H_X_1>>, as_ |-> "admin",
                   query |-> [q |-> "1"], description |-> "d",
                   response |-> [status |-> S_200, headers |-> <<H_CT_ab>>,
                                 body |-> Str(S_hi)]]
      [] p = 3 -> [url_parameters |-> Lit(EmptyDict), form |-> EmptyDict,
                   headers |-> <<>>, query |-> EmptyDict]
      [] p = 4 -> [verb |-> "POST", content_type |-> S_a_b]
      [] p = 5 -> [response |-> [status |-> S_200]]

CallArgs == {("title" :> "base") @@ UrlArg(u) @@ Profile(p) : u \in 1..2, p \in 1..5}

\* the url of a diff: none, one with parameters, one without
DiffUrl(u) ==
    CASE u = 1 -> <<>>
      [] u = 2 -> "url" :> U_a_c
      [] u = 3 -> "url" :> U_x

\* the url_parameters argument of OverriddenCall: none, a value for a, empty
DiffParameters(e) ==
    CASE e = 1 -> <<>>
      [] e = 2 -> "url_parameters" :> Lit(K_a :> <<"9", "9">>)
      [] e = 3 -> "url_parameters" :> Lit(EmptyDict)

\* the other fields of a diff: none, or all of them
DiffFields(f) ==
    CASE f = 1 -> <<>>
      [] f = 2 -> [verb |-> "PUT", form |-> [g |-> "w"], content_type |-> S_c_d,
                   headers |-> <<H_X_2>>, as_ |-> "bob", query |-> [r |-> "2"]]

OverriddenArgs ==
    {("title" :> "override") @@ DiffUrl(u) @@ DiffParameters(e) @@ DiffFields(f) :
        u \in 1..3, e \in 1..3, f \in 1..2}

\* what the transport returns: a status code and reason, headers and a body
TransportStatus == { [code |-> 200, reason |-> <<"O", "K">>],
                     [code |-> 404, reason |-> SubSeq(S_404, 5, Len(S_404))],
                     [code |-> 500, reason |-> SubSeq(S_500, 5, Len(S_500))] }

TransportPayload ==
    { [headers |-> <<>>, body |-> S_hi],
      [headers |-> << <<S_ContentType, S_a_b \o <<";", " ">> \o S_charset \o S_utf>> >>,
       body |-> <<>>],
      [headers |-> << <<S_content_type, <<"z", "z">> >>, <<(<<"X">>), (<<"1">>)>> >>,
       body |-> S_hi] }

\* str(n) for a natural number
RECURSIVE Decimal(_)
Decimal(n) ==
    IF n < 10 THEN <<DigitChars[n + 1]>>
    ELSE Decimal(n \div 10) \o <<DigitChars[(n % 10) + 1]>>

\* the status line of a transport result
StatusLine(st) == Decimal(st.code) \o <<" ">> \o st.reason

CallAt(i) == IF i = 0 THEN Val(base) ELSE calls[i]

Init ==
    /\ heap = <<>>
    /\ base = None
    /\ calls = <<>>
    /\ arg = None
    /\ ret = None
    /\ err = "none"
    /\ op = "init"

\* base_call = Call(**kw)
NewCall(kw) ==
    /\ IsNone(base)
    /\ \E r \in {Call(heap, kw)} :
          /\ err' = r.err
          /\ base' = IF r.err = "none" THEN Some(r.call) ELSE None
          /\ heap' = IF r.err = "none" THEN r.h ELSE heap
    /\ arg' = kw
    /\ ret' = None
    /\ op' = "Call"
    /\ UNCHANGED calls

\* calls.append(OverriddenCall(base_call, **kw))
NewOverriddenCall(kw) ==
    /\ ~IsNone(base)
    /\ Len(calls) < MaxCalls
    /\ \E r \in {OverriddenCall(heap, Val(base), kw)} :
          /\ err' = r.err
          /\ calls' = IF r.err = "none" THEN Append(calls, r.call) ELSE calls
          /\ heap' = IF r.err = "none" THEN r.h ELSE heap
    /\ arg' = kw
    /\ ret' = None
    /\ op' = "OverriddenCall"
    /\ UNCHANGED base

\* calls[i].invoke(application), calls[0] being the base call; the lists that
\* invoke made are dropped when it returns
Invoke(i, st, payload) ==
    /\ ~IsNone(base)
    /\ i \in 0..Len(calls)
    /\ \E rq \in {InvokeRequest(heap, CallAt(i))} :
          /\ heap' = SubSeq(rq.h, 1, Len(heap))
          /\ arg' = [call |-> i, request |-> rq.request,
                     status |-> st, payload |-> payload]
    /\ \E r \in {InvokeResponse(StatusLine(st), payload.headers, payload.body)} :
          /\ err' = r.err
          /\ ret' = IF r.err = "none" THEN Some(r.response) ELSE None
    /\ op' = "invoke"
    /\ UNCHANGED <<base, calls>>

\* call.response = call.invoke(application): the assignment, after invoke
AssignResponse ==
    /\ op = "invoke"
    /\ err = "none"
    /\ \E v \in {SetResponseValue(ret).response} :
          IF arg.call = 0
          THEN /\ base' = Some([Val(base) EXCEPT !.response = v])
               /\ UNCHANGED calls
          ELSE /\ calls' = [calls EXCEPT ![arg.call].response = v]
               /\ UNCHANGED base
    /\ arg' = [call |-> arg.call]
    /\ ret' = None
    /\ op' = "response"
    /\ UNCHANGED <<heap, err>>

\* Call(**base_call.to_dict()).to_dict(), beside base_call.to_dict()
CallRoundTrip ==
    /\ ~IsNone(base)
    /\ op # "Call.roundtrip"
    /\ \E d \in {Call_to_dict(heap, Val(base))} :
       \E r \in {Call(heap, d)} :
          /\ err' = r.err
          /\ ret' = Some([dumped |-> DeepDict(heap, d),
                          loaded |-> IF r.err = "none"
                                     THEN Some(DeepDict(r.h, Call_to_dict(r.h, r.call)))
                                     ELSE None])
    /\ arg' = None
    /\ op' = "Call.roundtrip"
    /\ UNCHANGED <<heap, base, calls>>

\* Story.from_dict(story.to_dict()).to_dict(), beside story.to_dict()
StoryRoundTrip ==
    /\ ~IsNone(base)
    /\ op # "Story.roundtrip"
    /\ \E d \in {Story_to_dict(heap, Val(base), calls)} :
       \E r \in {Story_from_dict(heap, d)} :
          /\ err' = r.err
          /\ ret' = Some([dumped |-> DeepStoryDict(heap, d),
                          loaded |-> IF r.err = "none"
                                     THEN Some(DeepStoryDict(r.h,
                                              Story_to_dict(r.h, r.base_call, r.calls)))
                                     ELSE None])
    /\ arg' = None
    /\ op' = "Story.roundtrip"
    /\ UNCHANGED <<heap, base, calls>>

Next ==
    \/ \E kw \in CallArgs : NewCall(kw)
    \/ \E kw \in OverriddenArgs : NewOverriddenCall(kw)
    \/ \E i \in 0..MaxCalls, st \in TransportStatus, payload \in TransportPayload :
          Invoke(i, st, payload)

Spec == Init /\ [][Next]_vars

\* the story with its responses assigned and its round trips; the status line
\* is only copied by to_dict, so one is enough here
NextStory ==
    \/ \E kw \in CallArgs : NewCall(kw)
    \/ \E kw \in OverriddenArgs : NewOverriddenCall(kw)
    \/ \E i \in 0..MaxCalls, payload \in TransportPayload :
          Invoke(i, [code |-> 200, reason |-> <<"O", "K">>], payload)
    \/ AssignResponse
    \/ CallRoundTrip
    \/ StoryRoundTrip

SpecStory == Init /\ [][NextStory]_vars

-----------------------------------------------------------------------------
(* The claims *)

LastCall == calls[Len(calls)]

\* the headers of a Call, by value
HeadersOf(h, c) == IF IsNone(c.headers) THEN None ELSE Some(h[c.headers[1]])

\* the url_parameters argument of the last OverriddenCall, empty when not given
GivenParameters == IF "url_parameters" \in DOMAIN arg THEN arg["url_parameters"].lit
                   ELSE EmptyDict

\* C1: Story.from_dict(s.to_dict()) does not raise and its to_dict() equals
\* s.to_dict(), for a story of a base call and overridden calls with or without
\* a response.
C1_StoryRoundTrip ==
    op = "Story.roundtrip" =>
        /\ err = "none"
        /\ ret[1].loaded = Some(ret[1].dumped)

\* C2: Call(**c.to_dict()) does not raise and its to_dict() equals c.to_dict(),
\* also when the response of c has no headers or no body.
C2_CallRoundTrip ==
    op = "Call.roundtrip" =>
        /\ err = "none"
        /\ ret[1].loaded = Some(ret[1].dumped)

\* C3: the url that extract_url_parameters returns has no match of the
\* parameter pattern left and its mapping has exactly the names and values of
\* the segments; a url without a parameter is returned unchanged with an empty
\* mapping.
C3_ExtractLeavesNoParameterSyntax ==
    op = "extract_url_parameters" =>
        LET r == ret[1]
            found == FindAll(arg)
        IN IF found # <<>>
           THEN /\ FindAll(r.url) = <<>>
                /\ DOMAIN r.url_parameters = {found[i][1] : i \in 1..Len(found)}
                /\ \A k \in DOMAIN r.url_parameters :
                      \E i \in 1..Len(found) : found[i] = <<k, r.url_parameters[k]>>
           ELSE /\ r.url = arg
                /\ DOMAIN r.url_parameters = {}

\* C4: an OverriddenCall with a url_parameters argument D and no url in its
\* diff is constructed, its url_parameters are the base's with D on top, and its
\* url and verb are the base's.
C4_UrlParametersOverrideMerges ==
    (op = "OverriddenCall" /\ "url" \notin DOMAIN arg
        /\ "url_parameters" \in DOMAIN arg) =>
        /\ err = "none"
        /\ heap[LastCall.url_parameters] =
              DictUpdate(heap[base[1].url_parameters], GivenParameters)
        /\ LastCall.url = base[1].url
        /\ LastCall.verb = base[1].verb

\* C5: each of url, verb, form, headers, query, content_type and as_ of an
\* OverriddenCall is the diff's value when the diff has the key and the base
\* call's value when it has not.
C5_DiffFieldsOverrideBaseFields ==
    (op = "OverriddenCall" /\ err = "none") =>
        LET c == LastCall
            b == base[1]
            d == c.diff
        IN /\ c.url = IF "url" \in DOMAIN d THEN d["url"] ELSE b.url
           /\ c.verb = IF "verb" \in DOMAIN d THEN d["verb"] ELSE b.verb
           /\ c.form = IF "form" \in DOMAIN d THEN Some(d["form"]) ELSE b.form
           /\ HeadersOf(heap, c) = IF "headers" \in DOMAIN d
                                   THEN normalize_headers(Some(d["headers"]))
                                   ELSE HeadersOf(heap, b)
           /\ c.query = IF "query" \in DOMAIN d
                        THEN normalize_query_string(Some(d["query"])) ELSE b.query
           /\ c.content_type = IF "content_type" \in DOMAIN d
                               THEN Some(d["content_type"]) ELSE b.content_type
           /\ c.as_ = IF "as_" \in DOMAIN d THEN Some(d["as_"]) ELSE b.as_

\* C6: invoke does not raise, whatever status line the transport returns, and
\* the Response it returns has the status code of that line and the headers and
\* the body the transport returned.
C6_InvokeReturnsTransportResult ==
    op = "invoke" =>
        /\ err = "none"
        /\ ret[1].status_code = arg.status.code
        /\ ret[1].headers =
              Some([i \in 1..Len(arg.payload.headers) |->
                       HPair(arg.payload.headers[i][1], arg.payload.headers[i][2])])
        /\ ret[1].body = Some(Bytes(arg.payload.body))

\* invoke has returned the Response of a 404 with headers
C6_Witness ==
    /\ op = "invoke"
    /\ err = "none"
    /\ arg.status.code = 404
    /\ ret[1].status_code = 404
    /\ arg.payload.headers # <<>>
    /\ ret[1].headers # Some(<<>>)

\* C7: to_dict() of a Call and of a Response has the key headers, form, query
\* or body exactly when that field is there and not empty, url_parameters is not
\* emitted as an empty mapping, and a Call built with only a title serializes to
\* title, url and verb.
C7_ToDictOmitsAbsentAndEmpty ==
    /\ ~IsNone(base) =>
          LET c == base[1]
              d == Call_to_dict(heap, c)
          IN /\ "form" \in DOMAIN d <=> (~IsNone(c.form) /\ DOMAIN c.form[1] # {})
             /\ "query" \in DOMAIN d <=> (~IsNone(c.query) /\ DOMAIN c.query[1] # {})
             /\ "headers" \in DOMAIN d <=>
                   (~IsNone(c.headers) /\ heap[c.headers[1]] # <<>>)
             /\ "url_parameters" \in DOMAIN d <=> DOMAIN heap[c.url_parameters] # {}
             /\ (op = "Call" /\ DOMAIN arg = {"title"}) =>
                   DOMAIN d = {"title", "url", "verb"}
    /\ (op = "invoke" /\ err = "none") =>
          LET d == Response_to_dict(ret[1])
          IN /\ "headers" \in DOMAIN d <=>
                   (~IsNone(ret[1].headers) /\ ret[1].headers[1] # <<>>)
             /\ "body" \in DOMAIN d <=>
                   (~IsNone(ret[1].body) /\ ret[1].body[1].data # <<>>)

\* the index of the first header named Content-Type whatever its case, 0 when
\* there is none
FirstContentTypeAnyCase(headers) ==
    LET S == {i \in 1..Len(headers) : Lower(headers[i].name) = S_content_type}
    IN IF S = {} THEN 0 ELSE CHOOSE i \in S : \A j \in S : i <= j

\* C8: a Response takes the first header named Content-Type, compared without
\* regard to case; when its value matches type/subtype[; charset=X] the
\* content_type is type/subtype and the encoding X (absent without a charset),
\* and both are absent when there is no such header or no match.
C8_ContentTypeHeaderAnyCase ==
    (op = "Response" /\ err = "none") =>
        LET i == FirstContentTypeAnyCase(arg.headers)
            m == IF i = 0 THEN NoMatch ELSE CONTENT_TYPE_PATTERN(arg.headers[i].value)
        IN IF m.ok
           THEN ret[1].content_type = m.content_type /\ ret[1].encoding = m.encoding
           ELSE ret[1].content_type = None /\ ret[1].encoding = None

\* C9: constructing an OverriddenCall and invoking a call leave every field of
\* the base call and of every call of the story as it was, the response and the
\* stored headers included.
C9_CallsUnchanged ==
    [][op' \in {"OverriddenCall", "invoke"} =>
          \A i \in 0..Len(calls) :
             DeepCall(heap', IF i = 0 THEN base'[1] ELSE calls'[i]) =
             DeepCall(heap, CallAt(i))]_vars

\* the base call, which has headers and a content type, has been invoked with
\* other headers than it stores, in a story with an overridden call
C9_Witness ==
    /\ op = "invoke"
    /\ Len(calls) >= 1
    /\ arg.call = 0
    /\ ~IsNone(base[1].content_type)
    /\ ~IsNone(base[1].headers)
    /\ heap[base[1].headers[1]] # <<>>
    /\ arg.request.headers # heap[base[1].headers[1]]

\* C10: with a url with parameters in the diff, each url parameter has the
\* value of the url_parameters argument, else the value extracted from the
\* diff's url, else the base call's value, and a name only the base has is
\* still there.
C10_UrlParameterPrecedence ==
    (op = "OverriddenCall" /\ err = "none" /\ "url" \in DOMAIN arg
        /\ FindAll(arg["url"]) # <<>>) =>
        LET eff == heap[LastCall.url_parameters]
            extracted == extract_url_parameters(arg["url"]).url_parameters
            inherited == heap[base[1].url_parameters]
        IN \A n \in DOMAIN GivenParameters \cup DOMAIN extracted \cup DOMAIN inherited :
              /\ n \in DOMAIN eff
              /\ eff[n] = IF n \in DOMAIN GivenParameters THEN GivenParameters[n]
                          ELSE IF n \in DOMAIN extracted THEN extracted[n]
                          ELSE inherited[n]

====
